---- MODULE Spec2Model ----
(***************************************************************************)
(* The generation-request workflow of apps/api (POST /generation/generate) *)
(* and the fallback provider adapter generateCode, as state machines.      *)
(*                                                                         *)
(* One step of a handler is one awaited call (a D1 statement, a provider   *)
(* call, an R2 put) together with the synchronous code that follows it up  *)
(* to the next await: concurrent invocations interleave at those points.   *)
(***************************************************************************)
EXTENDS Integers, Sequences, FiniteSets, TLC

(* ----------------------------- bounds ---------------------------------- *)
\* number of POST /generate invocations in flight over a behaviour
NumInv == 2
\* longest provider file list
MaxFiles == 2
\* longest raw fallback-model response, in tokens
MaxLen == 5

(* ------------------------ program constants ---------------------------- *)
\* users.generations_limit INTEGER DEFAULT 3
generations_limit_default == 3

Inv == 1 .. NumInv
Accounts == {"u1", "u2"}
Prompts == {"build a todo list"}

\* optional values: None, or Some(x)
None == << >>
Some(x) == <<x>>

(* ------------------------ raw model responses -------------------------- *)
\* A raw response text is a sequence of tokens: FENCE is three backticks,
\* FENCE_JSON is three backticks followed by json.  "m" stands for the member
\* text  "files":[{"name":"a.tsx","content":"X","type":"text/tsx"}]  and
\* "mm" (used in the answers the handler is run against) for a files member
\* listing a.tsx then b.css.
FenceJson == "FENCE_JSON"
Fence == "FENCE"
Tokens == {FenceJson, Fence, "{", "}", "m", " "}

RECURSIVE SeqsUpTo(_, _)
SeqsUpTo(S, n) ==
  IF n = 0 THEN {<< >>}
  ELSE LET shorter == SeqsUpTo(S, n - 1)
       IN  shorter \cup {Append(s, x) : s \in {t \in shorter : Len(t) = n - 1}, x \in S}

fileA == [name |-> "a.tsx", content |-> <<"X">>, type |-> "text/tsx"]
fileB == [name |-> "b.css", content |-> <<"Y">>, type |-> "text/css"]

IsWs(tok) == tok = " "
IsFence(tok) == tok \in {Fence, FenceJson}  \* the opening fence begins with a fence

\* JSON.parse of a token text: whitespace between tokens is insignificant;
\* the only well-formed values over these tokens are the objects {} and
\* {<files member>}.  Anything else is a SyntaxError.
JSONparse(s) ==
  LET t == SelectSeq(s, LAMBDA tok : ~IsWs(tok))
  IN  IF t = <<"{", "}">> THEN [ok |-> TRUE, value |-> [hasFiles |-> FALSE, files |-> << >>]]
      ELSE IF t = <<"{", "m", "}">> THEN [ok |-> TRUE, value |-> [hasFiles |-> TRUE, files |-> <<fileA>>]]
      ELSE IF t = <<"{", "mm", "}">> THEN [ok |-> TRUE, value |-> [hasFiles |-> TRUE, files |-> <<fileA, fileB>>]]
      ELSE [ok |-> FALSE, value |-> [hasFiles |-> FALSE, files |-> << >>]]

\* aiText.match(/FENCE json \s*([\s\S]*?)\s* FENCE/), FENCE being three
\* backticks: the leftmost opening fence that has a fence after it; group 1
\* runs from the end of the leading whitespace to the start of the
\* whitespace run before the first such fence.
MatchFenced(aiText) ==
  LET n == Len(aiText)
      opens == {i \in 1 .. n : aiText[i] = FenceJson /\ \E j \in (i + 1) .. n : IsFence(aiText[j])}
  IN  IF opens = {} THEN None
      ELSE LET i == CHOOSE k \in opens : \A l \in opens : k <= l
               cf == CHOOSE j \in (i + 1) .. n :
                       IsFence(aiText[j]) /\ \A l \in (i + 1) .. (j - 1) : ~IsFence(aiText[l])
               s == CHOOSE k \in (i + 1) .. cf :
                       (\A l \in (i + 1) .. (k - 1) : IsWs(aiText[l])) /\ ~IsWs(aiText[k])
               e == CHOOSE k \in s .. cf :
                       (\A l \in k .. (cf - 1) : IsWs(aiText[l]))
                       /\ \A k2 \in s .. (k - 1) : \E l \in k2 .. (cf - 1) : ~IsWs(aiText[l])
           IN  Some([whole |-> SubSeq(aiText, i, cf - 1) \o <<Fence>>, group1 |-> SubSeq(aiText, s, e - 1)])

\* aiText.match(/\{[\s\S]*\}/): greedy, first "{" to last "}".
MatchBraces(aiText) ==
  LET n == Len(aiText)
      lbs == {i \in 1 .. n : aiText[i] = "{" /\ \E j \in (i + 1) .. n : aiText[j] = "}"}
  IN  IF lbs = {} THEN None
      ELSE LET a == CHOOSE k \in lbs : \A l \in lbs : k <= l
               b == CHOOSE k \in (a + 1) .. n : aiText[k] = "}" /\ \A l \in (k + 1) .. n : aiText[l] # "}"
           IN  Some([whole |-> SubSeq(aiText, a, b), group1 |-> << >>])

\* const jsonMatch = aiText.match(fenced) || aiText.match(braces)
jsonMatch(aiText) ==
  IF MatchFenced(aiText) # None THEN MatchFenced(aiText) ELSE MatchBraces(aiText)

\* jsonMatch[1] || jsonMatch[0]: group 1 is falsy when it is the empty string
\* and when it is undefined (the brace pattern has no group): both are << >>
MatchedText(m) ==
  IF m.group1 # << >> THEN m.group1 ELSE m.whole

\* the template of generateFallbackCode, with the prompt interpolated twice
generateFallbackCode(prompt) ==
  <<"// Generated component based on: ", prompt, "import React ... based on your prompt: ", prompt, " ... Type: {type} | Framework: {framework} ...">>

FallbackResult(prompt) ==
  [hasFiles |-> TRUE, files |-> <<[name |-> "component.tsx", content |-> generateFallbackCode(prompt), type |-> "text/tsx"]>>]

AIFailedMsg == "AI code generation failed"

\* generateCode after env.AI.run returned aiText: the parsed object, the
\* synthesized single file, or (JSON.parse threw inside the try) the rethrown
\* Error('AI code generation failed').
generateCode(prompt, aiText) ==
  LET m == jsonMatch(aiText)
  IN  IF m # None
      THEN LET p == JSONparse(MatchedText(m[1]))
           IN  IF p.ok THEN [threw |-> FALSE, message |-> "", value |-> p.value]
               ELSE [threw |-> TRUE, message |-> AIFailedMsg, value |-> p.value]
      ELSE [threw |-> FALSE, message |-> "", value |-> FallbackResult(prompt)]

(* --------------------- POST /generation/generate ----------------------- *)
VARIABLES
  users,          \* users table: id -> [generations_used, generations_limit]
  generations,    \* generations table: id -> optional row
  STORAGE,        \* R2 bucket: set of [key, content]
  scopeBinds,     \* whether the free identifier generationId resolves (see generationId)
  pc,             \* per invocation: the await it is suspended at
  req,            \* per invocation: userId from the context and the validated body
  user,           \* per invocation: the row read by the quota SELECT
  generatedCode,  \* per invocation: the provider result
  fileUrls,       \* per invocation: descriptors pushed so far
  error,          \* per invocation: message of the error caught at line 108
  response,       \* per invocation: what the handler returned
  log,            \* history: the awaited steps of each invocation, "!" = it threw
  genIn, genOut,  \* input and output of a stand-alone generateCode call
  appReq,         \* the app: the HTTP request being dispatched
  appPos,         \* the app: position in the chain of matched registrations
  appRan,         \* the app: the middleware and handlers that ran, in order
  appRes,         \* the app: the status of the response, once there is one
  ctxUserId,      \* the app: c.get('userId')
  getReq,         \* GET /generation/:id: the caller's userId and the id parameter
  getRes,         \* GET /generation/:id: the response
  histReq,        \* GET /generation/history: the caller's userId and the query parameters
  histPc,         \* GET /generation/history: the await it is suspended at
  histQuery,      \* GET /generation/history: page, limit, offset as computed
  histRows,       \* GET /generation/history: generations.results
  histRes,        \* GET /generation/history: the response
  authUsers,      \* auth: the rows of the users table as auth.ts reads and writes them
  call,           \* auth: the route and the validated body of each call
  callPc,         \* auth: the await each call is suspended at
  callUser,       \* auth: the row each call's SELECT returned
  callRes,        \* auth: the response of each call
  missionInput,   \* MissionInterface: useState('')
  missionResult,  \* MissionInterface: useState(null)
  isLoading,      \* MissionInterface: useState(false)
  exec            \* MissionInterface: each run of handleMissionExecute

handlerVars == <<users, generations, STORAGE, scopeBinds, pc, req, user, generatedCode,
                 fileUrls, error, response, log>>
genVars == <<genIn, genOut>>
appVars == <<appReq, appPos, appRan, appRes, ctxUserId>>
getVars == <<getReq, getRes>>
histVars == <<histReq, histPc, histQuery, histRows, histRes>>
authVars == <<authUsers, call, callPc, callUser, callRes>>
uiVars == <<missionInput, missionResult, isLoading, exec>>
extraVars == <<histVars, authVars, uiVars>>
otherVars == <<genVars, appVars, getVars, extraVars>>
vars == <<handlerVars, otherVars>>

UserIds == Accounts \cup {"gone"}   \* "gone": a token whose users row no longer exists

\* The handler reads generationId (lines 45, 69, 93, 102, 114) and the source
\* holds no declaration of it.  scopeBinds tells whether the identifier
\* resolves: if it does, it is the identifier generated for this invocation,
\* unique per invocation; if it does not, every read of it throws a
\* ReferenceError.
generationId(i) == i

fileKeyNoId(id, name) == <<"generations", 0, name>>

\* line 69: `generations/${generationId}/${file.name}`
fileKey(id, name) == <<"generations", id, name>>
fileUrl(key) == <<"https://storage.thisaicodes.com/", key>>

\* getFileType: the extension after the last dot, looked up in typeMap
ext(filename) ==
  CASE filename = "a.tsx" -> "tsx"
    [] filename = "b.css" -> "css"
    [] OTHER -> ""
getFileType(filename) ==
  LET e == ext(filename)
  IN  CASE e = "tsx" -> "text/tsx"
        [] e = "ts" -> "text/typescript"
        [] e = "jsx" -> "text/jsx"
        [] e = "js" -> "text/javascript"
        [] e = "css" -> "text/css"
        [] e = "html" -> "text/html"
        [] e = "json" -> "application/json"
        [] e = "md" -> "text/markdown"
        [] OTHER -> "text/plain"

\* what the v0 endpoint may answer: result.files, a list of {name, content};
\* rawA2 carries the name of rawA with other content
rawA == [name |-> "a.tsx", content |-> <<"X">>]
rawB == [name |-> "b.css", content |-> <<"Y">>]
rawA2 == [name |-> "a.tsx", content |-> <<"Z">>]
V0FileLists ==
  {l \in {<< >>, <<rawA, rawA2>>, <<rawA, rawB, rawA2>>} :
     Len(l) <= MaxFiles}

\* callV0API's transform of a successful answer (lines 329-337)
callV0API(rawFiles) ==
  [hasFiles |-> TRUE,
   files |-> [k \in 1 .. Len(rawFiles) |->
                [name |-> rawFiles[k].name, content |-> rawFiles[k].content,
                 type |-> getFileType(rawFiles[k].name)]]]

\* raw fallback-model answers the handler is run against
HandlerAiTexts ==
  { <<"{", "m", "}">>,                       \* a bare object with one file
    <<FenceJson, "{", "mm", "}", Fence>>,     \* a fenced object with two files
    <<"{", "}">>,                            \* an object without a files member
    <<"m", " ">>,                            \* prose, no braces, no fence
    <<"{", " ", "m">> \o <<"}", "}">> }      \* braces around text that is not JSON

NoReq == [userId |-> "", prompt |-> ""]
NoCode == [hasFiles |-> FALSE, files |-> << >>]

QuotaMsg == "Generation limit reached. Upgrade your plan to continue."
FailedMsg == "Code generation failed"
D1Error == "D1_ERROR"
R2Error == "R2 put failed"
NullUserError == "Cannot read properties of null (reading 'generations_used')"
RefError == "generationId is not defined"

\* no request is being dispatched by the app, none handled by GET /:id
AppIdle ==
  /\ appReq = None
  /\ appPos = 0
  /\ appRan = << >>
  /\ appRes = None
  /\ ctxUserId = None
GetIdle ==
  /\ getReq = None
  /\ getRes = None
\* no GET /history request in progress
HistIdle ==
  /\ histReq = None
  /\ histPc = "idle"
  /\ histQuery = None
  /\ histRows = << >>
  /\ histRes = None
\* concurrent calls of the auth routes
NumCalls == 2
Calls == 1 .. NumCalls
NoCall == [route |-> "", email |-> "", password |-> "", token |-> << >>]
\* no auth call in progress, no users row
AuthIdle ==
  /\ authUsers = {}
  /\ call = [c \in Calls |-> NoCall]
  /\ callPc = [c \in Calls |-> "idle"]
  /\ callUser = [c \in Calls |-> None]
  /\ callRes = [c \in Calls |-> None]
\* runs of handleMissionExecute
NumExec == 2
Execs == 1 .. NumExec
NoExec == [pc |-> "idle", response |-> None, sets |-> 0]
\* the component as mounted: lines 5-7
UiIdle ==
  /\ missionInput = << >>
  /\ missionResult = None
  /\ isLoading = FALSE
  /\ exec = [e \in Execs |-> NoExec]
ExtraIdle ==
  /\ HistIdle
  /\ AuthIdle
  /\ UiIdle

Init ==
  /\ users \in {[a \in Accounts |->
                  [generations_used |-> IF a = "u1" THEN k ELSE generations_limit_default,
                   generations_limit |-> generations_limit_default]] :
                k \in (generations_limit_default - 1) .. (generations_limit_default + 1)}
  /\ generations = [id \in Inv |-> None]
  /\ STORAGE = {}
  /\ scopeBinds \in BOOLEAN
  /\ pc = [i \in Inv |-> "idle"]
  /\ req = [i \in Inv |-> NoReq]
  /\ user = [i \in Inv |-> None]
  /\ generatedCode = [i \in Inv |-> NoCode]
  /\ fileUrls = [i \in Inv |-> << >>]
  /\ error = [i \in Inv |-> ""]
  /\ response = [i \in Inv |-> None]
  /\ log = [i \in Inv |-> << >>]
  /\ genIn = [prompt |-> "", aiText |-> << >>]
  /\ genOut = None
  /\ AppIdle
  /\ GetIdle
  /\ ExtraIdle

Logged(i, ev) == log' = [log EXCEPT ![i] = Append(@, ev)]

\* Control reaches the catch block (line 108) with a caught error: console.error,
\* then prepare(...).bind(error.message, generationId) runs synchronously; with
\* generationId unresolved that throws a ReferenceError out of the handler.
\* Otherwise the handler is suspended at the failed-update's run().
Caught(i, message) ==
  /\ error' = [error EXCEPT ![i] = message]
  /\ pc' = [pc EXCEPT ![i] = IF scopeBinds THEN "catch" ELSE "threw"]

\* line 24-25: the validated body and c.get('userId')
Arrive(i) ==
  /\ pc[i] = "idle"
  /\ \E u \in UserIds, p \in Prompts : req' = [req EXCEPT ![i] = [userId |-> u, prompt |-> p]]
  /\ pc' = [pc EXCEPT ![i] = "quota"]
  /\ UNCHANGED <<users, generations, STORAGE, scopeBinds, user, generatedCode, fileUrls,
                 error, response, log, otherVars>>

OverQuotaStrict(u) == u.generations_used > u.generations_limit

\* line 33: user.generations_used >= user.generations_limit
OverQuota(u) == u.generations_used >= u.generations_limit

\* lines 29-52: the quota SELECT returns a row; 429 when over quota, else the
\* INSERT is prepared and bound (line 45 reads generationId) and run() awaited.
QuotaRead(i) ==
  /\ pc[i] = "quota"
  /\ req[i].userId \in Accounts
  /\ LET u == users[req[i].userId]
     IN  /\ user' = [user EXCEPT ![i] = Some(u)]
         /\ IF OverQuota(u)
            THEN /\ response' = [response EXCEPT ![i] =
                      Some([status |-> 429, error |-> QuotaMsg, generationId |-> 0, files |-> << >>])]
                 /\ pc' = [pc EXCEPT ![i] = "done"]
                 /\ error' = error
            ELSE /\ response' = response
                 /\ IF scopeBinds
                    THEN pc' = [pc EXCEPT ![i] = "insert"] /\ error' = error
                    ELSE Caught(i, RefError)
  /\ Logged(i, "quota")
  /\ UNCHANGED <<users, generations, STORAGE, scopeBinds, req, generatedCode, fileUrls, otherVars>>

\* lines 29-33: first() resolves to null, so user.generations_used throws a TypeError
QuotaReadNoRow(i) ==
  /\ pc[i] = "quota"
  /\ req[i].userId \notin Accounts
  /\ Caught(i, NullUserError)
  /\ Logged(i, "quota!")
  /\ UNCHANGED <<users, generations, STORAGE, scopeBinds, req, user, generatedCode, fileUrls,
                 response, otherVars>>

\* lines 29-31: the SELECT rejects
QuotaReadThrows(i) ==
  /\ pc[i] = "quota"
  /\ Caught(i, D1Error)
  /\ Logged(i, "quota!")
  /\ UNCHANGED <<users, generations, STORAGE, scopeBinds, req, user, generatedCode, fileUrls,
                 response, otherVars>>

NewRow(i) ==
  [id |-> generationId(i), user_id |-> req[i].userId, prompt |-> req[i].prompt,
   status |-> "processing", files |-> None, error |-> "", writes |-> <<"processing">>]

InsertNotAwaited(i) ==
  /\ pc[i] = "insert"
  /\ pc' = [pc EXCEPT ![i] = "v0"]
  /\ Logged(i, "insert")
  /\ UNCHANGED <<users, generations, STORAGE, scopeBinds, req, user, generatedCode, fileUrls,
                 error, response, otherVars>>

\* lines 41-58: the INSERT runs; callV0API is called and awaited
Insert(i) ==
  /\ pc[i] = "insert"
  /\ generations' = [generations EXCEPT ![generationId(i)] = Some(NewRow(i))]
  /\ pc' = [pc EXCEPT ![i] = "v0"]
  /\ Logged(i, "insert")
  /\ UNCHANGED <<users, STORAGE, scopeBinds, req, user, generatedCode, fileUrls, error,
                 response, otherVars>>

InsertThrows(i) ==
  /\ pc[i] = "insert"
  /\ Caught(i, D1Error)
  /\ Logged(i, "insert!")
  /\ UNCHANGED <<users, generations, STORAGE, scopeBinds, req, user, generatedCode, fileUrls,
                 response, otherVars>>

\* lines 65-68 and 84-94: files = generatedCode.files || []; with no file left
\* to put, the completed UPDATE is issued next
AfterProvider(i, code) ==
  /\ generatedCode' = [generatedCode EXCEPT ![i] = code]
  /\ pc' = [pc EXCEPT ![i] = IF Len(code.files) = 0 THEN "complete" ELSE "put"]

\* line 58: callV0API resolves
CallV0(i) ==
  /\ pc[i] = "v0"
  /\ \E raw \in V0FileLists : AfterProvider(i, callV0API(raw))
  /\ Logged(i, "v0")
  /\ UNCHANGED <<users, generations, STORAGE, scopeBinds, req, user, fileUrls, error,
                 response, otherVars>>

NoFallback == "catch"
RetryPrimary == "v0"

\* lines 59-61: the inner catch absorbs the v0 error and calls generateCode
AfterV0Failure == "ai"

\* lines 58-61: callV0API rejects (no key, fetch error, non-ok status, bad JSON)
CallV0Throws(i) ==
  /\ pc[i] = "v0"
  /\ pc' = [pc EXCEPT ![i] = AfterV0Failure]
  /\ Logged(i, "v0!")
  /\ UNCHANGED <<users, generations, STORAGE, scopeBinds, req, user, generatedCode, fileUrls,
                 error, response, otherVars>>

\* line 61: generateCode resolves or rejects on the model's answer
CallAI(i) ==
  /\ pc[i] = "ai"
  /\ \E aiText \in HandlerAiTexts :
       LET r == generateCode(req[i].prompt, aiText)
       IN  IF r.threw
           THEN /\ Caught(i, r.message)
                /\ Logged(i, "ai!")
                /\ UNCHANGED generatedCode
           ELSE /\ AfterProvider(i, r.value)
                /\ Logged(i, "ai")
                /\ UNCHANGED error
  /\ UNCHANGED <<users, generations, STORAGE, scopeBinds, req, user, fileUrls, response, otherVars>>

\* lines 219-226, 252-255: env.AI.run rejects; generateCode rethrows
CallAIThrows(i) ==
  /\ pc[i] = "ai"
  /\ Caught(i, AIFailedMsg)
  /\ Logged(i, "ai!")
  /\ UNCHANGED <<users, generations, STORAGE, scopeBinds, req, user, generatedCode, fileUrls,
                 response, otherVars>>

Unshifted(urls, d) == <<d>> \o urls

\* lines 77-81: fileUrls.push({name, url, type})
Pushed(urls, d) == Append(urls, d)

\* lines 68-82: STORAGE.put of the next file resolves; its descriptor is pushed
Put(i) ==
  /\ pc[i] = "put"
  /\ LET files == generatedCode[i].files
         k == Len(fileUrls[i]) + 1
         file == files[k]
         key == fileKey(generationId(i), file.name)
     IN  /\ STORAGE' = {o \in STORAGE : o.key # key} \cup {[key |-> key, content |-> file.content]}
         /\ fileUrls' = [fileUrls EXCEPT ![i] =
                           Pushed(@, [name |-> file.name, url |-> fileUrl(key), type |-> file.type])]
         /\ pc' = [pc EXCEPT ![i] = IF k = Len(files) THEN "complete" ELSE "put"]
  /\ Logged(i, "put")
  /\ UNCHANGED <<users, generations, scopeBinds, req, user, generatedCode, error, response, otherVars>>

PutThrows(i) ==
  /\ pc[i] = "put"
  /\ Caught(i, R2Error)
  /\ Logged(i, "put!")
  /\ UNCHANGED <<users, generations, STORAGE, scopeBinds, req, user, generatedCode, fileUrls,
                 response, otherVars>>

\* UPDATE generations SET ... WHERE id = ?: no row, no change
UpdateRow(id, status, files, message) ==
  IF generations[id] = None THEN generations
  ELSE [generations EXCEPT ![id] =
          Some([generations[id][1] EXCEPT !.status = status, !.files = files,
                                          !.error = message, !.writes = Append(@, status)])]

AllButLast(i) == SubSeq(fileUrls[i], 1, Len(fileUrls[i]) - 1)

\* line 91: files = JSON.stringify(fileUrls)
CompletedFiles(i) == fileUrls[i]

CompleteAndIncrement(i) ==
  /\ pc[i] = "complete"
  /\ generations' = UpdateRow(generationId(i), "completed", Some(CompletedFiles(i)),
                              generations[generationId(i)][1].error)
  /\ users' = [users EXCEPT ![req[i].userId].generations_used = @ + 1]
  /\ pc' = [pc EXCEPT ![i] = "incr"]
  /\ Logged(i, "complete")
  /\ UNCHANGED <<STORAGE, scopeBinds, req, user, generatedCode, fileUrls, error,
                 response, otherVars>>

\* lines 85-94: the completed UPDATE runs
Complete(i) ==
  /\ pc[i] = "complete"
  /\ generations' = UpdateRow(generationId(i), "completed", Some(CompletedFiles(i)),
                              generations[generationId(i)][1].error)
  /\ pc' = [pc EXCEPT ![i] = "incr"]
  /\ Logged(i, "complete")
  /\ UNCHANGED <<users, STORAGE, scopeBinds, req, user, generatedCode, fileUrls, error,
                 response, otherVars>>

CompleteThrows(i) ==
  /\ pc[i] = "complete"
  /\ Caught(i, D1Error)
  /\ Logged(i, "complete!")
  /\ UNCHANGED <<users, generations, STORAGE, scopeBinds, req, user, generatedCode, fileUrls,
                 response, otherVars>>

IncrementedEveryUser(userId) ==
  [a \in Accounts |-> [users[a] EXCEPT !.generations_used = @ + 1]]

IncrementedIfBelowLimit(userId) ==
  IF users[userId].generations_used < users[userId].generations_limit
  THEN [users EXCEPT ![userId].generations_used = @ + 1]
  ELSE users

\* lines 97-99: UPDATE users SET generations_used = generations_used + 1 WHERE id = ?
IncrementedUsers(userId) == [users EXCEPT ![userId].generations_used = @ + 1]

\* lines 97-106: the increment runs, then the 200 response
Increment(i) ==
  /\ pc[i] = "incr"
  /\ users' = IncrementedUsers(req[i].userId)
  /\ response' = [response EXCEPT ![i] =
        Some([status |-> 200, error |-> "", generationId |-> generationId(i), files |-> fileUrls[i]])]
  /\ pc' = [pc EXCEPT ![i] = "done"]
  /\ Logged(i, "incr")
  /\ UNCHANGED <<generations, STORAGE, scopeBinds, req, user, generatedCode, fileUrls, error, otherVars>>

IncrementThrows(i) ==
  /\ pc[i] = "incr"
  /\ Caught(i, D1Error)
  /\ Logged(i, "incr!")
  /\ UNCHANGED <<users, generations, STORAGE, scopeBinds, req, user, generatedCode, fileUrls,
                 response, otherVars>>

\* lines 112-116: UPDATE generations SET status = "failed", error = ? WHERE id = ?
\* runs, then the 500 response
MarkFailed(i) ==
  /\ pc[i] = "catch"
  /\ generations' = UpdateRow(generationId(i), "failed",
                              IF generations[generationId(i)] = None THEN None
                              ELSE generations[generationId(i)][1].files,
                              error[i])
  /\ response' = [response EXCEPT ![i] =
        Some([status |-> 500, error |-> FailedMsg, generationId |-> 0, files |-> << >>])]
  /\ pc' = [pc EXCEPT ![i] = "done"]
  /\ Logged(i, "failed")
  /\ UNCHANGED <<users, STORAGE, scopeBinds, req, user, generatedCode, fileUrls, error, otherVars>>

\* the failed UPDATE rejects inside the catch block: the handler rejects
MarkFailedThrows(i) ==
  /\ pc[i] = "catch"
  /\ pc' = [pc EXCEPT ![i] = "threw"]
  /\ Logged(i, "failed!")
  /\ UNCHANGED <<users, generations, STORAGE, scopeBinds, req, user, generatedCode, fileUrls,
                 error, response, otherVars>>

Next ==
  \E i \in Inv :
    \/ Arrive(i)
    \/ QuotaRead(i)
    \/ QuotaReadNoRow(i)
    \/ QuotaReadThrows(i)
    \/ Insert(i)
    \/ InsertThrows(i)
    \/ CallV0(i)
    \/ CallV0Throws(i)
    \/ CallAI(i)
    \/ CallAIThrows(i)
    \/ Put(i)
    \/ PutThrows(i)
    \/ Complete(i)
    \/ CompleteThrows(i)
    \/ Increment(i)
    \/ IncrementThrows(i)
    \/ MarkFailed(i)
    \/ MarkFailedThrows(i)

Spec == Init /\ [][Next]_vars

\* an invocation that has started and has neither answered nor rejected
Active(i) == pc[i] \notin {"idle", "done", "threw"}

\* the invocations of one account run one at a time
OneAtATime ==
  \A i, j \in Inv : (i # j /\ Active(i) /\ Active(j)) => req[i].userId # req[j].userId

\* a request of an account arrives only when no other invocation of that
\* account is running
ArriveSeq(i) == Arrive(i) /\ OneAtATime'

SeqNext ==
  \E i \in Inv :
    \/ ArriveSeq(i)
    \/ QuotaRead(i)
    \/ QuotaReadNoRow(i)
    \/ QuotaReadThrows(i)
    \/ Insert(i)
    \/ InsertThrows(i)
    \/ CallV0(i)
    \/ CallV0Throws(i)
    \/ CallAI(i)
    \/ CallAIThrows(i)
    \/ Put(i)
    \/ PutThrows(i)
    \/ Complete(i)
    \/ CompleteThrows(i)
    \/ Increment(i)
    \/ IncrementThrows(i)
    \/ MarkFailed(i)
    \/ MarkFailedThrows(i)

\* POST /generate with each account's requests served one after the other
SpecSeq == Init /\ [][SeqNext]_vars

(* ------------------- generateCode on its own --------------------------- *)
GenInit ==
  /\ genIn \in [prompt : Prompts, aiText : SeqsUpTo(Tokens, MaxLen)]
  /\ genOut = None
  /\ AppIdle
  /\ GetIdle
  /\ ExtraIdle
  /\ users = [a \in Accounts |-> [generations_used |-> 0, generations_limit |-> generations_limit_default]]
  /\ generations = [id \in Inv |-> None]
  /\ STORAGE = {}
  /\ scopeBinds = TRUE
  /\ pc = [i \in Inv |-> "idle"]
  /\ req = [i \in Inv |-> NoReq]
  /\ user = [i \in Inv |-> None]
  /\ generatedCode = [i \in Inv |-> NoCode]
  /\ fileUrls = [i \in Inv |-> << >>]
  /\ error = [i \in Inv |-> ""]
  /\ response = [i \in Inv |-> None]
  /\ log = [i \in Inv |-> << >>]

\* lines 229-250: the body of generateCode from the model's raw text on
GenRun ==
  /\ genOut = None
  /\ genOut' = Some(generateCode(genIn.prompt, genIn.aiText))
  /\ UNCHANGED <<genIn, handlerVars, appVars, getVars, extraVars>>

SpecGen == GenInit /\ [][GenRun]_vars
(* --------------------------- index.ts: the app ------------------------- *)
\* A path is its sequence of segments.  A pattern segment ":id" matches any
\* one segment; a trailing "*" matches any rest, the empty one included.
Matches(pattern, path) ==
  IF pattern # << >> /\ pattern[Len(pattern)] = "*"
  THEN /\ Len(path) >= Len(pattern) - 1
       /\ \A k \in 1 .. (Len(pattern) - 1) : pattern[k] = path[k]
  ELSE /\ Len(path) = Len(pattern)
       /\ \A k \in 1 .. Len(pattern) : pattern[k] \in {path[k], ":id"}

Reg(kind, method, pattern, name) ==
  [kind |-> kind, method |-> method, pattern |-> pattern, name |-> name]

\* the routes of generationRouter in the order they are added to it
\* (lines 21-23, 122, 158), under the prefix of app.route
generationRoutes ==
  << Reg("validator", "POST", <<"generation", "generate">>, "zValidator"),
     Reg("handler", "POST", <<"generation", "generate">>, "generate"),
     Reg("handler", "GET", <<"generation", "history">>, "history"),
     Reg("handler", "GET", <<"generation", ":id">>, "getById") >>

\* the routes of authRouter (lines 1261-1263, 1316-1318, 1378-1379)
authRoutes ==
  << Reg("ratelimit", "POST", <<"auth", "register">>, "rateLimitMiddleware"),
     Reg("validator", "POST", <<"auth", "register">>, "zValidator"),
     Reg("handler", "POST", <<"auth", "register">>, "register"),
     Reg("ratelimit", "POST", <<"auth", "login">>, "rateLimitMiddleware"),
     Reg("validator", "POST", <<"auth", "login">>, "zValidator"),
     Reg("handler", "POST", <<"auth", "login">>, "login"),
     Reg("validator", "POST", <<"auth", "verify-email">>, "zValidator"),
     Reg("handler", "POST", <<"auth", "verify-email">>, "verifyEmail") >>

\* what index.ts registers on app, in the order of its statements: app.use
\* and app.get add one entry, app.route adds the sub-router's routes at the
\* moment it is called
registrations ==
  << Reg("middleware", "ALL", <<"*">>, "logger"),
     Reg("middleware", "ALL", <<"*">>, "prettyJSON"),
     Reg("middleware", "ALL", <<"*">>, "cors"),
     Reg("handler", "GET", <<"health">>, "health") >>
  \o authRoutes
  \o generationRoutes
  \o << Reg("auth", "ALL", <<"projects", "*">>, "authMiddleware"),
        Reg("auth", "ALL", <<"generation", "*">>, "authMiddleware"),
        Reg("auth", "ALL", <<"deployment", "*">>, "authMiddleware"),
        Reg("auth", "ALL", <<"analytics", "*">>, "authMiddleware") >>

\* the registrations a request matches, in registration order: the chain the
\* app composes and runs from its first element
Matched(r) ==
  SelectSeq(registrations,
            LAMBDA e : e.method \in {"ALL", r.method} /\ Matches(e.pattern, r.path))

Methods == {"GET", "POST"}
Paths ==
  { <<"health">>, <<"auth", "login">>, <<"generation", "generate">>,
    <<"generation", "history">>, <<"generation", "g1">>, <<"nowhere">> }
\* the Authorization header: absent, a token that does not verify, or a
\* token issued to an account
Authorizations == {"none", "bad"} \cup Accounts

\* the bearer-token check of middleware/auth: a token issued to an account
authMiddleware(authorization) ==
  IF authorization \in Accounts THEN Some(authorization) ELSE None

\* A JSON body: each member is absent (None) or present (Some).  A uuid is
\* written as its five groups of hex digits, "h8" standing for eight of them;
\* an e-mail address as local part, "@", domain.
Uuid == <<"h8", "-", "h4", "-", "h4", "-", "h4", "-", "h12">>
NoBody ==
  [prompt |-> None, type |-> None, framework |-> None, projectId |-> None,
   email |-> None, password |-> None, name |-> None, token |-> None]
GenerateBodies ==
  { [NoBody EXCEPT !.prompt = Some(p), !.type = Some(t), !.framework = f, !.projectId = pid] :
      p \in {"short", "123456789", "1234567890"} \cup Prompts,
      t \in {"component", "widget"},
      f \in {None, Some("react"), Some("angular")},
      pid \in {None, Some(Uuid), Some(<<"h2">>)} }
LoginBody == [NoBody EXCEPT !.email = Some(<<"u1", "@", "x.io">>), !.password = Some("secret")]
Bodies == GenerateBodies \cup {NoBody, LoginBody}

IsUuid(v) == v = Uuid
IsEmail(v) == Len(v) = 3 /\ v[1] # "" /\ v[2] = "@" /\ v[3] # ""

generateSchemaNoMin(body) ==
  /\ body.prompt # None
  /\ body.type # None /\ body.type[1] \in {"component", "page", "api", "fullstack"}
  /\ body.framework # None => body.framework[1] \in {"react", "vue", "svelte", "nextjs"}
  /\ body.projectId # None => IsUuid(body.projectId[1])

\* lines 13-18: generateSchema
generateSchema(body) ==
  /\ body.prompt # None /\ Len(body.prompt[1]) >= 10
  /\ body.type # None /\ body.type[1] \in {"component", "page", "api", "fullstack"}
  /\ body.framework # None => body.framework[1] \in {"react", "vue", "svelte", "nextjs"}
  /\ body.projectId # None => IsUuid(body.projectId[1])

\* lines 1236-1249
registerSchema(body) ==
  /\ body.email # None /\ IsEmail(body.email[1])
  /\ body.password # None /\ Len(body.password[1]) >= 8
  /\ body.name # None /\ Len(body.name[1]) >= 2
loginSchema(body) ==
  /\ body.email # None /\ IsEmail(body.email[1])
  /\ body.password # None /\ Len(body.password[1]) >= 1
verifyEmailSchema(body) == body.token # None

\* the schema zValidator is given on the route
Validates(pattern, body) ==
  CASE pattern = <<"generation", "generate">> -> generateSchema(body)
    [] pattern = <<"auth", "register">> -> registerSchema(body)
    [] pattern = <<"auth", "login">> -> loginSchema(body)
    [] OTHER -> verifyEmailSchema(body)

AppArrive ==
  /\ appReq = None
  /\ \E m \in Methods, p \in Paths, a \in Authorizations, b \in Bodies :
       appReq' = Some([method |-> m, path |-> p, authorization |-> a, body |-> b])
  /\ appPos' = 1
  /\ UNCHANGED <<appRan, appRes, ctxUserId, handlerVars, genVars, getVars, extraVars>>

\* the element of the chain that runs next
Current == Matched(appReq[1])[appPos]
Dispatching(kind) ==
  /\ appReq # None /\ appRes = None
  /\ appPos <= Len(Matched(appReq[1]))
  /\ Current.kind = kind

\* logger, prettyJSON, cors: each awaits next()
RunMiddleware ==
  /\ Dispatching("middleware")
  /\ appRan' = Append(appRan, Current.name)
  /\ appPos' = appPos + 1
  /\ UNCHANGED <<appReq, appRes, ctxUserId, handlerVars, genVars, getVars, extraVars>>

\* zValidator('json', schema): 400 on a body the schema rejects, else next()
RunValidator ==
  /\ Dispatching("validator")
  /\ appRan' = Append(appRan, Current.name)
  /\ IF Validates(Current.pattern, appReq[1].body)
     THEN appPos' = appPos + 1 /\ appRes' = appRes
     ELSE appPos' = appPos /\ appRes' = Some(400)
  /\ UNCHANGED <<appReq, ctxUserId, handlerVars, genVars, getVars, extraVars>>

\* authMiddleware: 401 without an accepted bearer token, else it sets userId
\* on the context and awaits next()
RunAuth ==
  /\ Dispatching("auth")
  /\ appRan' = Append(appRan, Current.name)
  /\ IF authMiddleware(appReq[1].authorization) # None
     THEN /\ ctxUserId' = authMiddleware(appReq[1].authorization)
          /\ appPos' = appPos + 1 /\ appRes' = appRes
     ELSE /\ ctxUserId' = ctxUserId
          /\ appPos' = appPos /\ appRes' = Some(401)
  /\ UNCHANGED <<appReq, handlerVars, genVars, getVars, extraVars>>

\* rateLimitMiddleware (lines 1262, 1317): 429 over the limit, else next()
RunRateLimit ==
  /\ Dispatching("ratelimit")
  /\ appRan' = Append(appRan, Current.name)
  /\ \/ appPos' = appPos + 1 /\ appRes' = appRes
     \/ appPos' = appPos /\ appRes' = Some(429)
  /\ UNCHANGED <<appReq, ctxUserId, handlerVars, genVars, getVars, extraVars>>

\* a route handler: its body runs and returns a response (written 200 here,
\* whatever the body decides); it never calls next(), so nothing registered
\* after it runs.  The body of POST /generate starts as invocation 1 with
\* the validated prompt and c.get('userId') (lines 24-25).
RunHandler ==
  /\ Dispatching("handler")
  /\ appRan' = Append(appRan, Current.name)
  /\ appRes' = Some(200)
  /\ IF Current.name = "generate"
     THEN /\ req' = [req EXCEPT ![1] =
                      [userId |-> IF ctxUserId = None THEN "undefined" ELSE ctxUserId[1],
                       prompt |-> appReq[1].body.prompt[1]]]
          /\ pc' = [pc EXCEPT ![1] = "quota"]
     ELSE UNCHANGED <<req, pc>>
  /\ UNCHANGED <<appReq, appPos, ctxUserId, users, generations, STORAGE, scopeBinds, user,
                 generatedCode, fileUrls, error, response, log, genVars, getVars, extraVars>>

\* lines 1217-1219: the chain ended without a response
NotFound ==
  /\ appReq # None /\ appRes = None
  /\ appPos > Len(Matched(appReq[1]))
  /\ appRes' = Some(404)
  /\ UNCHANGED <<appReq, appPos, appRan, ctxUserId, handlerVars, genVars, getVars, extraVars>>

AppNext ==
  \/ AppArrive
  \/ RunMiddleware
  \/ RunValidator
  \/ RunAuth
  \/ RunRateLimit
  \/ RunHandler
  \/ NotFound

\* no POST /generate invocation in flight, no generateCode call
HandlerIdle ==
  /\ users = [a \in Accounts |-> [generations_used |-> 0, generations_limit |-> generations_limit_default]]
  /\ STORAGE = {}
  /\ scopeBinds = TRUE
  /\ pc = [i \in Inv |-> "idle"]
  /\ req = [i \in Inv |-> NoReq]
  /\ user = [i \in Inv |-> None]
  /\ generatedCode = [i \in Inv |-> NoCode]
  /\ fileUrls = [i \in Inv |-> << >>]
  /\ error = [i \in Inv |-> ""]
  /\ response = [i \in Inv |-> None]
  /\ log = [i \in Inv |-> << >>]
  /\ genIn = [prompt |-> "", aiText |-> << >>]
  /\ genOut = None

AppInit ==
  /\ HandlerIdle
  /\ generations = [id \in Inv |-> None]
  /\ AppIdle
  /\ GetIdle
  /\ ExtraIdle

SpecApp == AppInit /\ [][AppNext]_vars

(* ------------------------ GET /generation/:id -------------------------- *)
\* a row of the generations table as an earlier POST /generate left it
StoredRow(id, owner, status) ==
  [id |-> id, user_id |-> owner, prompt |-> "build a todo list", status |-> status,
   files |-> IF status = "completed" THEN Some(<< >>) ELSE None, error |-> "",
   writes |-> IF status = "completed" THEN <<"processing", "completed">> ELSE <<"processing">>]

\* the id parameter: the id of a possible row, or 0, an id no row carries
IdParams == Inv \cup {0}

GetInit ==
  /\ HandlerIdle
  /\ generations \in [Inv -> {None}] \cup
       { [id \in Inv |-> IF id \in present THEN Some(StoredRow(id, owner[id], status)) ELSE None] :
           present \in SUBSET Inv, owner \in [Inv -> Accounts], status \in {"processing", "completed"} }
  /\ AppIdle
  /\ GetIdle
  /\ ExtraIdle

\* lines 159-160: the id parameter and c.get('userId')
GetArrive ==
  /\ getReq = None
  /\ \E u \in UserIds, id \in IdParams : getReq' = Some([userId |-> u, id |-> id])
  /\ UNCHANGED <<getRes, handlerVars, genVars, appVars, extraVars>>

SelectById(id, userId) ==
  IF id \in Inv /\ generations[id] # None THEN generations[id] ELSE None

\* lines 163-166: SELECT * FROM generations WHERE id = ? AND user_id = ?, first()
SelectOwned(id, userId) ==
  IF id \in Inv /\ generations[id] # None /\ generations[id][1].user_id = userId
  THEN generations[id]
  ELSE None

NotFoundBody == [status |-> 404, error |-> "Generation not found", generation |-> None]
FetchFailedBody == [status |-> 500, error |-> "Failed to fetch generation", generation |-> None]

\* lines 163-172: the SELECT resolves; 404 without a row, else the row
GetById ==
  /\ getReq # None /\ getRes = None
  /\ LET generation == SelectOwned(getReq[1].id, getReq[1].userId)
     IN  getRes' = IF generation = None THEN Some(NotFoundBody)
                   ELSE Some([status |-> 200, error |-> "", generation |-> generation])
  /\ UNCHANGED <<getReq, handlerVars, genVars, appVars, extraVars>>

\* lines 174-177: the SELECT rejects
GetByIdThrows ==
  /\ getReq # None /\ getRes = None
  /\ getRes' = Some(FetchFailedBody)
  /\ UNCHANGED <<getReq, handlerVars, genVars, appVars, extraVars>>

GetNext ==
  \/ GetArrive
  \/ GetById
  \/ GetByIdThrows

SpecGet == GetInit /\ [][GetNext]_vars

(* ---------------------- GET /generation/history ------------------------ *)
\* longest query-parameter value, in characters
MaxQuery == 2
\* Math.min(..., 50)
historyCap == 50

\* A query-parameter value is a sequence of characters; a JavaScript number
\* is None when it is NaN and Some(n) otherwise.
QueryChars == {"-", "0", "1", "5", "x"}
Digit == [c \in {"0", "1", "5"} |-> CASE c = "0" -> 0 [] c = "1" -> 1 [] OTHER -> 5]
QueryValues == {None} \cup {Some(v) : v \in SeqsUpTo(QueryChars, MaxQuery)}

\* the value of the longest prefix of digits of s, after acc; NaN with no digit
RECURSIVE DigitsValue(_, _, _)
DigitsValue(s, acc, seen) ==
  IF s # << >> /\ s[1] \in DOMAIN Digit
  THEN DigitsValue(Tail(s), 10 * acc + Digit[s[1]], TRUE)
  ELSE IF seen THEN Some(acc) ELSE None

\* parseInt(string): an optional sign, then the leading digits
parseInt(s) ==
  IF s # << >> /\ s[1] = "-"
  THEN LET v == DigitsValue(Tail(s), 0, FALSE) IN IF v = None THEN None ELSE Some(0 - v[1])
  ELSE DigitsValue(s, 0, FALSE)

\* c.req.query(name) || fallback: undefined and the empty string are falsy
QueryOr(q, fallback) == IF q = None \/ q = Some(<< >>) THEN fallback ELSE q[1]

\* Math.min(x, cap): NaN if x is NaN
MathMin(x, cap) == IF x = None THEN None ELSE IF x[1] < cap THEN x ELSE Some(cap)

\* (page - 1) * limit: NaN if either is
Offset(page, limit) ==
  IF page = None \/ limit = None THEN None ELSE Some((page[1] - 1) * limit[1])

\* Math.ceil(count / limit): NaN or an infinity (None here) when limit is NaN or 0
Pages(count, limit) ==
  IF limit = None \/ limit[1] = 0 THEN None
  ELSE IF limit[1] > 0 THEN Some((count + limit[1] - 1) \div limit[1])
  ELSE Some(0 - (count \div (0 - limit[1])))

\* the ids of the rows of userId, newest first (created_at grows with the id here)
RECURSIVE OwnedDesc(_, _)
OwnedDesc(userId, n) ==
  IF n = 0 THEN << >>
  ELSE (IF generations[n] # None /\ generations[n][1].user_id = userId THEN <<n>> ELSE << >>)
       \o OwnedDesc(userId, n - 1)

\* SELECT ... WHERE user_id = ? ORDER BY created_at DESC
SelectHistory(userId) == OwnedDesc(userId, NumInv)

\* LIMIT ? OFFSET ? as SQLite applies them: a negative LIMIT is no limit, a
\* negative OFFSET is 0
LimitOffset(rows, limit, offset) ==
  LET from == IF offset < 0 THEN 0 ELSE offset
      rest == SubSeq(rows, from + 1, Len(rows))
  IN  IF limit < 0 \/ limit >= Len(rest) THEN rest ELSE SubSeq(rest, 1, limit)

HistoryFailedBody == [status |-> 500, error |-> "Failed to fetch generation history"]

HistInit ==
  /\ HandlerIdle
  /\ generations \in
       { [id \in Inv |-> Some(StoredRow(id, owner[id], "completed"))] : owner \in [Inv -> Accounts] }
  /\ AppIdle
  /\ GetIdle
  /\ ExtraIdle

\* lines 123-126: userId, page, limit, offset
HistArrive ==
  /\ histPc = "idle"
  /\ \E u \in UserIds, qp \in QueryValues, ql \in QueryValues :
       LET page == parseInt(QueryOr(qp, <<"1">>))
           limit == MathMin(parseInt(QueryOr(ql, <<"1", "0">>)), historyCap)
       IN  /\ histReq' = Some([userId |-> u, page |-> qp, limit |-> ql])
           /\ histQuery' = Some([page |-> page, limit |-> limit, offset |-> Offset(page, limit)])
  /\ histPc' = "select"
  /\ UNCHANGED <<histRows, histRes, handlerVars, genVars, appVars, getVars, authVars, uiVars>>

\* lines 129-135: the page query resolves; a NaN bound as LIMIT or OFFSET is
\* no integer and the statement fails (see HistSelectThrows)
HistSelect ==
  /\ histPc = "select"
  /\ histQuery[1].limit # None /\ histQuery[1].offset # None
  /\ histRows' = LimitOffset(SelectHistory(histReq[1].userId),
                             histQuery[1].limit[1], histQuery[1].offset[1])
  /\ histPc' = "count"
  /\ UNCHANGED <<histReq, histQuery, histRes, handlerVars, genVars, appVars, getVars, authVars, uiVars>>

\* lines 151-154: the page query rejects
HistSelectThrows ==
  /\ histPc = "select"
  /\ histRes' = Some(HistoryFailedBody)
  /\ histPc' = "done"
  /\ UNCHANGED <<histReq, histQuery, histRows, handlerVars, genVars, appVars, getVars, authVars, uiVars>>

\* lines 137-149: the COUNT query resolves, then the response
HistCount ==
  /\ histPc = "count"
  /\ LET count == Len(SelectHistory(histReq[1].userId))
     IN  histRes' = Some([status |-> 200, generations |-> histRows,
                          pagination |-> [page |-> histQuery[1].page, limit |-> histQuery[1].limit,
                                          total |-> count,
                                          pages |-> Pages(count, histQuery[1].limit)]])
  /\ histPc' = "done"
  /\ UNCHANGED <<histReq, histQuery, histRows, handlerVars, genVars, appVars, getVars, authVars, uiVars>>

\* lines 151-154: the COUNT query rejects
HistCountThrows ==
  /\ histPc = "count"
  /\ histRes' = Some(HistoryFailedBody)
  /\ histPc' = "done"
  /\ UNCHANGED <<histReq, histQuery, histRows, handlerVars, genVars, appVars, getVars, authVars, uiVars>>

HistNext ==
  \/ HistArrive
  \/ HistSelect
  \/ HistSelectThrows
  \/ HistCount
  \/ HistCountThrows

SpecHist == HistInit /\ [][HistNext]_vars

(* --------------------------- auth routes -------------------------------- *)
\* The bodies of POST /auth/register, /auth/login and /auth/verify-email, each
\* call suspended at its awaits; the calls interleave at those points.
Emails == {"a@x.io", "b@x.io"}
NewEmail == "c@x.io"
Passwords == {"pw-one", "pw-two"}

\* bcrypt.hash(password, 12) and bcrypt.compare(password, hash)
bcryptHash(password) == <<"$2a$12$", password>>
bcryptCompareAny(password, hash) == TRUE
bcryptCompare(password, hash) == hash = bcryptHash(password)

\* crypto.randomUUID() as drawn by call c (0: before any call)
randomUUID(c) == <<"uuid", c>>
\* new Date().toISOString() as read by call c
now(c) == c
\* jwt.sign({userId, email, name}, JWT_SECRET, {expiresIn: '7d'})
jwtSign(u) == <<"jwt", u.id, u.email>>

UserRow(id, email, password, verified, token, deleted) ==
  [id |-> id, email |-> email, password_hash |-> bcryptHash(password),
   email_verified |-> verified, verification_token |-> token,
   email_verified_at |-> None, last_login_at |-> None, deleted_at |-> deleted]

\* a verification token no row carries
BogusToken == <<"bogus">>

AuthInit ==
  /\ HandlerIdle
  /\ generations = [id \in Inv |-> None]
  /\ AppIdle
  /\ GetIdle
  /\ HistIdle
  /\ UiIdle
  /\ authUsers \in
       { { UserRow(<<"seed", 1>>, "a@x.io", "pw-one", v,
                   IF v = 0 THEN Some(randomUUID(0)) ELSE None, None),
           UserRow(<<"seed", 2>>, "b@x.io", "pw-two", 1, None,
                   IF d THEN Some(now(0)) ELSE None) } :
         v \in {0, 1}, d \in BOOLEAN }
  /\ call = [c \in Calls |-> NoCall]
  /\ callPc = [c \in Calls |-> "idle"]
  /\ callUser = [c \in Calls |-> None]
  /\ callRes = [c \in Calls |-> None]

Responds(c, status, token, message) ==
  /\ callRes' = [callRes EXCEPT ![c] = Some([status |-> status, token |-> token, error |-> message])]
  /\ callPc' = [callPc EXCEPT ![c] = "done"]

\* catch (error): 500 'Internal server error' (lines 1309-1312, 1370-1373, 1402-1405)
Throws(c, at) ==
  /\ callPc[c] = at
  /\ Responds(c, 500, None, "Internal server error")
  /\ UNCHANGED <<authUsers, call, callUser, handlerVars, genVars, appVars, getVars, histVars, uiVars>>

\* .first(): a row of the result, null when there is none
First(rows) == IF rows = {} THEN {None} ELSE {Some(r) : r \in rows}

\* line 1265 / 1320 / 1381: c.req.valid('json')
RegisterArrive(c) ==
  /\ callPc[c] = "idle"
  /\ \E e \in {"a@x.io", NewEmail} :
       call' = [call EXCEPT ![c] = [route |-> "register", email |-> e, password |-> "pw-one",
                                    token |-> << >>]]
  /\ callPc' = [callPc EXCEPT ![c] = "r.select"]
  /\ UNCHANGED <<authUsers, callUser, callRes, handlerVars, genVars, appVars, getVars, histVars, uiVars>>

\* lines 1269-1275: SELECT id FROM users WHERE email = ?
RegisterSelect(c) ==
  /\ callPc[c] = "r.select"
  /\ \E u \in First({r \in authUsers : r.email = call[c].email}) :
       IF u # None
       THEN Responds(c, 400, None, "User already exists")
       ELSE /\ callPc' = [callPc EXCEPT ![c] = "r.insert"]
            /\ UNCHANGED callRes
  /\ UNCHANGED <<authUsers, call, callUser, handlerVars, genVars, appVars, getVars, histVars, uiVars>>

RegisterSelectThrows(c) == Throws(c, "r.select")

\* lines 1278-1298: bcrypt.hash, then the INSERT; email is UNIQUE, so the
\* INSERT of an email a row already carries rejects
RegisterInsert(c) ==
  /\ callPc[c] = "r.insert"
  /\ \A r \in authUsers : r.email # call[c].email
  /\ authUsers' = authUsers \cup
       {UserRow(<<"new", c>>, call[c].email, call[c].password, 0, Some(randomUUID(c)), None)}
  /\ callPc' = [callPc EXCEPT ![c] = "r.send"]
  /\ UNCHANGED <<call, callUser, callRes, handlerVars, genVars, appVars, getVars, histVars, uiVars>>

RegisterInsertThrows(c) == Throws(c, "r.insert")

\* lines 1301-1306: sendVerificationEmail resolves, then the response
RegisterSend(c) ==
  /\ callPc[c] = "r.send"
  /\ Responds(c, 200, None, "")
  /\ UNCHANGED <<authUsers, call, callUser, handlerVars, genVars, appVars, getVars, histVars, uiVars>>

RegisterSendThrows(c) == Throws(c, "r.send")

LoginArrive(c) ==
  /\ callPc[c] = "idle"
  /\ \E e \in Emails, p \in Passwords :
       call' = [call EXCEPT ![c] = [route |-> "login", email |-> e, password |-> p, token |-> << >>]]
  /\ callPc' = [callPc EXCEPT ![c] = "l.select"]
  /\ UNCHANGED <<authUsers, callUser, callRes, handlerVars, genVars, appVars, getVars, histVars, uiVars>>

\* lines 1324-1331: SELECT ... WHERE email = ? AND deleted_at IS NULL
LoginSelect(c) ==
  /\ callPc[c] = "l.select"
  /\ \E u \in First({r \in authUsers : r.email = call[c].email /\ r.deleted_at = None}) :
       /\ callUser' = [callUser EXCEPT ![c] = u]
       /\ IF u = None
          THEN Responds(c, 401, None, "Invalid credentials")
          ELSE /\ callPc' = [callPc EXCEPT ![c] = "l.compare"]
               /\ UNCHANGED callRes
  /\ UNCHANGED <<authUsers, call, handlerVars, genVars, appVars, getVars, histVars, uiVars>>

LoginSelectThrows(c) == Throws(c, "l.select")

\* lines 1334-1353: bcrypt.compare resolves; 401 on a mismatch, 403 on an
\* unverified row, else the token is signed and the UPDATE awaited
LoginCompare(c) ==
  /\ callPc[c] = "l.compare"
  /\ IF ~bcryptCompare(call[c].password, callUser[c][1].password_hash)
     THEN Responds(c, 401, None, "Invalid credentials")
     ELSE IF callUser[c][1].email_verified = 0
          THEN Responds(c, 403, None, "Please verify your email before logging in")
          ELSE /\ callPc' = [callPc EXCEPT ![c] = "l.touch"]
               /\ UNCHANGED callRes
  /\ UNCHANGED <<authUsers, call, callUser, handlerVars, genVars, appVars, getVars, histVars, uiVars>>

LoginCompareThrows(c) == Throws(c, "l.compare")

\* lines 1356-1368: UPDATE users SET last_login_at = ? WHERE id = ?, then the
\* response with the token
LoginTouch(c) ==
  /\ callPc[c] = "l.touch"
  /\ authUsers' = {IF r.id = callUser[c][1].id THEN [r EXCEPT !.last_login_at = Some(now(c))] ELSE r :
                   r \in authUsers}
  /\ Responds(c, 200, Some(jwtSign(callUser[c][1])), "")
  /\ UNCHANGED <<call, callUser, handlerVars, genVars, appVars, getVars, histVars, uiVars>>

LoginTouchThrows(c) == Throws(c, "l.touch")

\* the tokens a caller may send: one no row carries, the seeded one, those
\* mailed by a registration
TokenInputs ==
  {BogusToken, randomUUID(0)} \cup
  {r.verification_token[1] : r \in {x \in authUsers : x.verification_token # None}}

VerifyArrive(c) ==
  /\ callPc[c] = "idle"
  /\ \E t \in TokenInputs :
       call' = [call EXCEPT ![c] = [route |-> "verify-email", email |-> "", password |-> "", token |-> t]]
  /\ callPc' = [callPc EXCEPT ![c] = "v.select"]
  /\ UNCHANGED <<authUsers, callUser, callRes, handlerVars, genVars, appVars, getVars, histVars, uiVars>>

\* lines 1384-1390: SELECT id FROM users WHERE verification_token = ? AND email_verified = 0
VerifySelect(c) ==
  /\ callPc[c] = "v.select"
  /\ \E u \in First({r \in authUsers : /\ r.verification_token = Some(call[c].token)
                                       /\ r.email_verified = 0}) :
       /\ callUser' = [callUser EXCEPT ![c] = u]
       /\ IF u = None
          THEN Responds(c, 400, None, "Invalid or expired verification token")
          ELSE /\ callPc' = [callPc EXCEPT ![c] = "v.update"]
               /\ UNCHANGED callRes
  /\ UNCHANGED <<authUsers, call, handlerVars, genVars, appVars, getVars, histVars, uiVars>>

VerifySelectThrows(c) == Throws(c, "v.select")

\* lines 1393-1399: UPDATE users SET email_verified = 1, verification_token =
\* NULL, email_verified_at = ? WHERE id = ?, then the response
VerifyUpdate(c) ==
  /\ callPc[c] = "v.update"
  /\ authUsers' = {IF r.id = callUser[c][1].id
                   THEN [r EXCEPT !.email_verified = 1, !.verification_token = None,
                                  !.email_verified_at = Some(now(c))]
                   ELSE r : r \in authUsers}
  /\ Responds(c, 200, None, "")
  /\ UNCHANGED <<call, callUser, handlerVars, genVars, appVars, getVars, histVars, uiVars>>

VerifyUpdateThrows(c) == Throws(c, "v.update")

AuthNext ==
  \E c \in Calls :
    \/ RegisterArrive(c)
    \/ RegisterSelect(c)
    \/ RegisterSelectThrows(c)
    \/ RegisterInsert(c)
    \/ RegisterInsertThrows(c)
    \/ RegisterSend(c)
    \/ RegisterSendThrows(c)
    \/ LoginArrive(c)
    \/ LoginSelect(c)
    \/ LoginSelectThrows(c)
    \/ LoginCompare(c)
    \/ LoginCompareThrows(c)
    \/ LoginTouch(c)
    \/ LoginTouchThrows(c)
    \/ VerifyArrive(c)
    \/ VerifySelect(c)
    \/ VerifySelectThrows(c)
    \/ VerifyUpdate(c)
    \/ VerifyUpdateThrows(c)

SpecAuth == AuthInit /\ [][AuthNext]_vars

(* -------------------------- MissionInterface ---------------------------- *)
\* The component's state and handleMissionExecute, suspended at its two
\* awaits. React runs an event handler and the render that follows it before
\* the next event, so an event sees the attributes of the last state.
\* longest text typed into the textarea, in characters
MaxInput == 2
InputChars == {" ", "m"}
Inputs == SeqsUpTo(InputChars, MaxInput)

\* String.prototype.trim: white space off both ends
RECURSIVE trimStart(_)
trimStart(s) == IF s # << >> /\ s[1] = " " THEN trimStart(Tail(s)) ELSE s
RECURSIVE trimEnd(_)
trimEnd(s) == IF s # << >> /\ s[Len(s)] = " " THEN trimEnd(SubSeq(s, 1, Len(s) - 1)) ELSE s
trim(s) == trimEnd(trimStart(s))

\* lines 41-56: the prompt of a quick action, by its first word
ActionTypes == {"INTEL", "TACTICAL", "THREAT"}
quickPrompt(actionType) ==
  CASE actionType = "INTEL" -> <<"Gather">>
    [] actionType = "TACTICAL" -> <<"Develop">>
    [] OTHER -> <<"Assess">>

\* the bodies response.json() may resolve with
MissionData ==
  { [message |-> "Mission executed", mission |-> Some("analysis"), error |-> None],
    [message |-> "Mission executed", mission |-> None, error |-> None],
    [message |-> "", mission |-> None, error |-> Some("Mission is required")],
    [message |-> "", mission |-> None, error |-> None] }

FetchFailure == "Failed to fetch"
JsonFailure == "Unexpected token < in JSON"
MissingMission == "Cannot read properties of undefined"

\* line 34: `Network error: ${error.message}`
NetworkError(message) ==
  [success |-> FALSE,
   message |-> CASE message = FetchFailure -> "Network error: Failed to fetch"
                 [] message = JsonFailure -> "Network error: Unexpected token < in JSON"
                 [] OTHER -> "Network error: Cannot read properties of undefined",
   analysis |-> None]

\* lines 29-33: the result for a parsed body; data.mission.ai_analysis throws
\* when the body has no mission
Result(ok, data) ==
  IF ok
  THEN IF data.mission = None THEN NetworkError(MissingMission)
       ELSE [success |-> TRUE, message |-> data.message, analysis |-> data.mission]
  ELSE [success |-> FALSE,
        message |-> IF data.error = None THEN "Unknown error occurred" ELSE data.error[1],
        analysis |-> None]

MissionInit ==
  /\ HandlerIdle
  /\ generations = [id \in Inv |-> None]
  /\ AppIdle
  /\ GetIdle
  /\ HistIdle
  /\ AuthIdle
  /\ UiIdle

\* line 72: onChange of the textarea, disabled while loading (line 73)
Change ==
  /\ ~isLoading
  /\ \E v \in Inputs : missionInput' = v
  /\ UNCHANGED <<missionResult, isLoading, exec, handlerVars, genVars, appVars, getVars, histVars, authVars>>

\* lines 41-59: a quick-action button, disabled while loading
QuickAction ==
  /\ ~isLoading
  /\ \E t \in ActionTypes : missionInput' = quickPrompt(t)
  /\ UNCHANGED <<missionResult, isLoading, exec, handlerVars, genVars, appVars, getVars, histVars, authVars>>

neverDisabled == FALSE

\* line 77: disabled={isLoading} on the execute button
disabled == isLoading

\* lines 9-25: a click on the execute button runs handleMissionExecute up to
\* its first await; e is the run
Execute(e) ==
  /\ ~disabled
  /\ exec[e].pc = "idle"
  /\ \A d \in Execs : d < e => exec[d].pc # "idle"
  /\ IF trim(missionInput) = << >>
     THEN /\ exec' = [exec EXCEPT ![e].pc = "returned"]
          /\ UNCHANGED <<missionResult, isLoading>>
     ELSE /\ isLoading' = TRUE
          /\ missionResult' = None
          /\ exec' = [exec EXCEPT ![e].pc = "fetch"]
  /\ UNCHANGED <<missionInput, handlerVars, genVars, appVars, getVars, histVars, authVars>>

\* lines 35-37: setMissionResult of the outcome, then finally setIsLoading(false)
Settles(e, result) ==
  /\ missionResult' = Some(result)
  /\ isLoading' = FALSE
  /\ exec' = [exec EXCEPT ![e].pc = "done", ![e].sets = @ + 1]

\* lines 15-25: fetch resolves with a response, ok or not
FetchResolves(e) ==
  /\ exec[e].pc = "fetch"
  /\ \E ok \in BOOLEAN : exec' = [exec EXCEPT ![e].pc = "json", ![e].response = Some([ok |-> ok])]
  /\ UNCHANGED <<missionInput, missionResult, isLoading, handlerVars, genVars, appVars, getVars,
                 histVars, authVars>>

\* lines 33-37: fetch rejects
FetchRejects(e) ==
  /\ exec[e].pc = "fetch"
  /\ Settles(e, NetworkError(FetchFailure))
  /\ UNCHANGED <<missionInput, handlerVars, genVars, appVars, getVars, histVars, authVars>>

\* lines 27-37: response.json() resolves
JsonResolves(e) ==
  /\ exec[e].pc = "json"
  /\ \E data \in MissionData : Settles(e, Result(exec[e].response[1].ok, data))
  /\ UNCHANGED <<missionInput, handlerVars, genVars, appVars, getVars, histVars, authVars>>

\* lines 27, 33-37: response.json() rejects
JsonRejects(e) ==
  /\ exec[e].pc = "json"
  /\ Settles(e, NetworkError(JsonFailure))
  /\ UNCHANGED <<missionInput, handlerVars, genVars, appVars, getVars, histVars, authVars>>

MissionNext ==
  \/ Change
  \/ QuickAction
  \/ \E e \in Execs :
       \/ Execute(e)
       \/ FetchResolves(e)
       \/ FetchRejects(e)
       \/ JsonResolves(e)
       \/ JsonRejects(e)

SpecMission == MissionInit /\ [][MissionNext]_vars

(* ------------------------------ claims --------------------------------- *)
Row(i) == generations[generationId(i)]
Has(i, ev) == \E k \in DOMAIN log[i] : log[i][k] = ev
Count(i, ev) == Cardinality({k \in DOMAIN log[i] : log[i][k] = ev})
BlobsOf(i) == {o \in STORAGE : o.key[2] = generationId(i)}
Returned(i, status) == response[i] # None /\ response[i][1].status = status
ReadOverQuota(i) ==
  user[i] # None /\ user[i][1].generations_used >= user[i][1].generations_limit
PassedQuota(i) ==
  user[i] # None /\ user[i][1].generations_used < user[i][1].generations_limit
ThrowEvents == {"quota!", "insert!", "v0!", "ai!", "put!", "complete!", "incr!", "failed!"}

\* C1: an invocation whose quota read saw generations_used >= generations_limit
\* returns 429 with the "Generation limit reached" message, and has inserted no
\* row, written no blob, called no provider and run no increment; the step
\* that rejects it changes no table and no blob.
C1_QuotaRejectedNoMutation ==
  /\ [](\A i \in Inv :
          ReadOverQuota(i) =>
            /\ pc[i] = "done"
            /\ response[i] = Some([status |-> 429, error |-> QuotaMsg,
                                   generationId |-> 0, files |-> << >>])
            /\ Row(i) = None
            /\ BlobsOf(i) = {}
            /\ log[i] = <<"quota">>)
  /\ [][\A i \in Inv :
          (pc[i] = "quota" /\ user'[i] # None
             /\ user'[i][1].generations_used >= user'[i][1].generations_limit)
          => UNCHANGED <<users, generations, STORAGE>>]_vars

C1_Witness ==
  \E i \in Inv : Returned(i, 429) /\ ReadOverQuota(i)
                 /\ user[i][1].generations_used = generations_limit_default

\* C2 (as claimed): a row's status is written as processing and then changes
\* exactly once, to completed or failed; nothing rewrites a terminal status.
C2_StatusChangesOnce ==
  \A i \in Inv :
    Row(i) # None =>
      Row(i)[1].writes \in {<<"processing">>, <<"processing", "completed">>,
                            <<"processing", "failed">>}

\* C3: when two invocations of one account both read the quota with one unit
\* left, both pass, and once both have run their increment the account's
\* generations_used exceeds its generations_limit.
C3_RaceOvershoots ==
  \A i, j \in Inv :
    (/\ i # j
     /\ req[i].userId = req[j].userId
     /\ user[i] # None /\ user[j] # None
     /\ user[i][1].generations_limit - user[i][1].generations_used = 1
     /\ user[j][1].generations_limit - user[j][1].generations_used = 1)
    => /\ pc[i] \notin {"quota"} /\ pc[j] \notin {"quota"}
       /\ ~Returned(i, 429) /\ ~Returned(j, 429)
       /\ (Has(i, "incr") /\ Has(j, "incr")
             => users[req[i].userId].generations_used > users[req[i].userId].generations_limit)

C3_Witness ==
  \E i, j \in Inv :
    /\ i # j
    /\ req[i].userId = req[j].userId
    /\ user[i] # None /\ user[j] # None
    /\ user[i][1].generations_limit - user[i][1].generations_used = 1
    /\ user[j][1].generations_limit - user[j][1].generations_used = 1
    /\ Returned(i, 200) /\ Returned(j, 200)
    /\ Row(i) # None /\ Row(i)[1].status = "completed"
    /\ Row(j) # None /\ Row(j)[1].status = "completed"
    /\ users[req[i].userId].generations_used > users[req[i].userId].generations_limit

\* C4: generations_used of an account changes only in the increment step of
\* one of its own invocations, whose row is then completed, and by exactly 1
\* (generations_limit never changes); an invocation that ended rejected or
\* with its row failed has run no increment.
C4_UsageFrame ==
  /\ [][\A a \in Accounts :
          users'[a] # users[a] =>
            /\ users'[a].generations_limit = users[a].generations_limit
            /\ users'[a].generations_used = users[a].generations_used + 1
            /\ \E i \in Inv :
                 /\ req[i].userId = a
                 /\ pc[i] = "incr" /\ pc'[i] = "done"
                 /\ Row(i) # None /\ Row(i)[1].status = "completed"]_vars
  /\ [](\A i \in Inv :
          (\/ Returned(i, 429)
           \/ Returned(i, 500)
           \/ (Row(i) # None /\ Row(i)[1].status = "failed"))
          => ~Has(i, "incr"))

C4_Witness ==
  \E i \in Inv :
    /\ pc[i] = "done"
    /\ Row(i) # None /\ Row(i)[1].status = "failed"
    /\ Has(i, "put")
    /\ users[req[i].userId] = user[i][1]

\* C5: an invocation that returned 200 inserted exactly one row, that row is
\* completed (written once as processing, once as completed), and it stores
\* as many file descriptors as the provider result has files.
C5_SuccessRow ==
  \A i \in Inv :
    Returned(i, 200) =>
      /\ Count(i, "insert") = 1
      /\ Row(i) # None
      /\ Row(i)[1].status = "completed"
      /\ Row(i)[1].writes = <<"processing", "completed">>
      /\ Row(i)[1].files # None
      /\ Len(Row(i)[1].files[1]) = Len(generatedCode[i].files)

C5_Witness ==
  \E i \in Inv : Returned(i, 200) /\ Len(generatedCode[i].files) = MaxFiles

\* C6 (as claimed): when a step after the insert threw (fallback provider,
\* blob write, completed update, usage increment), the finished invocation has
\* its row failed with the thrown message and returned 500 "Code generation
\* failed" with no detail.
C6_FailureRecorded ==
  \A i \in Inv :
    (/\ pc[i] \in {"done", "threw"}
     /\ \E ev \in {"ai!", "put!", "complete!", "incr!"} : Has(i, ev))
    => /\ Row(i) # None
       /\ Row(i)[1].status = "failed"
       /\ Row(i)[1].error = error[i]
       /\ response[i] = Some([status |-> 500, error |-> FailedMsg,
                              generationId |-> 0, files |-> << >>])

\* position of the first occurrence of an event of evs in the log of i, 0 if none
FirstPos(i, evs) ==
  IF \E k \in DOMAIN log[i] : log[i][k] \in evs
  THEN CHOOSE k \in DOMAIN log[i] :
         log[i][k] \in evs /\ \A l \in 1 .. (k - 1) : log[i][l] \notin evs
  ELSE 0

\* C7: whenever callV0API failed in an invocation, generateCode was called
\* after it, and before the row was (or the catch block could start to be)
\* marked failed.
C7_FallbackBeforeFailed ==
  \A i \in Inv :
    Has(i, "v0!") =>
      /\ (pc[i] \in {"catch", "done", "threw"} \/ (Row(i) # None /\ Row(i)[1].status = "failed"))
           => FirstPos(i, {"ai", "ai!"}) > FirstPos(i, {"v0!"})
      /\ Has(i, "failed") => FirstPos(i, {"ai", "ai!"}) < FirstPos(i, {"failed"})
      /\ FirstPos(i, {"ai", "ai!"}) # 0 => FirstPos(i, {"ai", "ai!"}) = FirstPos(i, {"v0!"}) + 1

C7_Witness ==
  \E i \in Inv :
    /\ Has(i, "v0!") /\ Has(i, "ai!")
    /\ Row(i) # None /\ Row(i)[1].status = "failed"

\* C8: primary threw, the fallback returned a result with a files list, and
\* nothing else threw: the finished request is completed and its descriptors
\* are the fallback files' names, one per file, in order.
C8_FallbackFilesStored ==
  \A i \in Inv :
    (/\ pc[i] = "done"
     /\ Has(i, "v0!") /\ Has(i, "ai")
     /\ generatedCode[i].hasFiles
     /\ \A ev \in ThrowEvents \ {"v0!"} : ~Has(i, ev))
    => /\ Row(i) # None
       /\ Row(i)[1].status = "completed"
       /\ Row(i)[1].files # None
       /\ Len(Row(i)[1].files[1]) = Len(generatedCode[i].files)
       /\ \A k \in 1 .. Len(generatedCode[i].files) :
            Row(i)[1].files[1][k].name = generatedCode[i].files[k].name

C8_Witness ==
  \E i \in Inv :
    /\ pc[i] = "done" /\ Has(i, "v0!") /\ Has(i, "ai")
    /\ Len(generatedCode[i].files) = 2
    /\ Row(i) # None /\ Row(i)[1].status = "completed"
    /\ Row(i)[1].files[1][1].name = "a.tsx" /\ Row(i)[1].files[1][2].name = "b.css"

Failed(i) ==
  \/ Returned(i, 500)
  \/ pc[i] = "threw"
  \/ (Row(i) # None /\ Row(i)[1].status = "failed")

NoParseableObject(aiText) ==
  \A a, b \in 1 .. Len(aiText) : ~JSONparse(SubSeq(aiText, a, b)).ok

Contains(content, piece) == \E k \in DOMAIN content : content[k] = piece

\* C10 (as claimed): on a raw text holding no parseable JSON object,
\* generateCode does not throw and returns exactly one file, component.tsx,
\* whose content contains the prompt.
C10_UnparseableGivesPlaceholder ==
  (genOut # None /\ NoParseableObject(genIn.aiText))
  => /\ ~genOut[1].threw
     /\ Len(genOut[1].value.files) = 1
     /\ genOut[1].value.files[1].name = "component.tsx"
     /\ Contains(genOut[1].value.files[1].content, genIn.prompt)

\* C11 (as claimed): whenever generateCode returns without throwing, its
\* result has a files list holding at least one file.
C11_FallbackReturnsAFile ==
  (genOut # None /\ ~genOut[1].threw)
  => /\ genOut[1].value.hasFiles
     /\ Len(genOut[1].value.files) >= 1

\* C12 (as claimed): once the handler has finished, by returning or by
\* rejecting, whatever was thrown on the way, the row it inserted is
\* completed or failed, never still processing.
C12_NoRowLeftProcessing ==
  \A i \in Inv :
    (pc[i] \in {"done", "threw"} /\ Row(i) # None)
    => Row(i)[1].status \in {"completed", "failed"}

ExternalEvents == {"v0", "v0!", "ai", "ai!", "put", "put!"}

\* C13: in an invocation that has called a provider or attempted a blob
\* write (or is suspended in such a call), the row was inserted before the
\* first such call, with the invocation's generated identifier and status
\* processing; while the first provider call is in flight the row is
\* processing.
C13_InsertBeforeExternalWork ==
  [](\A i \in Inv :
        /\ \A l \in DOMAIN log[i] :
             log[i][l] \in ExternalEvents
             => /\ \E k \in 1 .. (l - 1) : log[i][k] = "insert"
                /\ Row(i) # None
                /\ Row(i)[1].id = generationId(i)
                /\ Row(i)[1].writes[1] = "processing"
                /\ PassedQuota(i)
        /\ pc[i] \in {"v0", "ai", "put"}
             => /\ Has(i, "insert")
                /\ Row(i) # None
                /\ Row(i)[1].id = generationId(i)
                /\ Row(i)[1].status = "processing"
        /\ BlobsOf(i) # {} => Row(i) # None)

C13_Witness ==
  \E i \in Inv :
    /\ Has(i, "v0!") /\ Has(i, "ai") /\ Has(i, "put")
    /\ FirstPos(i, {"insert"}) = 2
    /\ Row(i) # None /\ Row(i)[1].id = generationId(i)

\* the storage keys of the descriptors invocation i has pushed
KeysOf(i) == {fileUrls[i][k].url[2] : k \in DOMAIN fileUrls[i]}

Attempt ==
  [ev \in ThrowEvents \cup {"quota", "insert", "v0", "ai", "put", "complete", "incr", "failed"} |->
     CASE ev \in {"quota", "quota!"} -> "quota"
       [] ev \in {"insert", "insert!"} -> "insert"
       [] ev \in {"v0", "v0!"} -> "v0"
       [] ev \in {"ai", "ai!"} -> "ai"
       [] ev \in {"put", "put!"} -> "put"
       [] ev \in {"complete", "complete!"} -> "complete"
       [] ev \in {"incr", "incr!"} -> "incr"
       [] OTHER -> "failed"]

\* C15: within one invocation nothing is retried: no database statement
\* (quota SELECT, INSERT, completed UPDATE, increment, failed UPDATE) and no
\* provider is called twice, generateCode is called only right after
\* callV0API failed, and the only call made more than once is the put, once
\* per file in order: an earlier put resolved, for the file before.
C15_NoRetry ==
  [](\A i \in Inv :
        /\ \A l \in DOMAIN log[i] :
             /\ \A k \in 1 .. (l - 1) :
                  Attempt[log[i][k]] = Attempt[log[i][l]]
                  => (log[i][k] = "put" /\ \A m \in k .. (l - 1) : log[i][m] = "put")
             /\ Attempt[log[i][l]] = "ai" => (l > 1 /\ log[i][l - 1] = "v0!")
        /\ Len(fileUrls[i]) <= Len(generatedCode[i].files)
        /\ \A k \in DOMAIN fileUrls[i] : fileUrls[i][k].name = generatedCode[i].files[k].name
        /\ pc[i] = "put" => Len(fileUrls[i]) < Len(generatedCode[i].files)
        /\ \A k \in DOMAIN log[i] :
             log[i][k] = "put" => (k > 1 /\ log[i][k - 1] \in {"v0", "ai", "put"}))

C15_Witness ==
  \E i \in Inv :
    /\ pc[i] = "done"
    /\ Has(i, "v0!") /\ Has(i, "ai") /\ Has(i, "put") /\ Has(i, "put!") /\ Has(i, "failed")

\* C16 (as claimed): when the put of file k > 1 threw, the finished
\* invocation has its row failed with no descriptors stored, has put no
\* further file, and the k-1 blobs written before are still in the store.
C16_LaterPutFailure ==
  \A i \in Inv :
    (pc[i] \in {"done", "threw"} /\ Has(i, "put!") /\ Count(i, "put") >= 1)
    => /\ Row(i) # None
       /\ Row(i)[1].status = "failed"
       /\ Row(i)[1].files = None
       /\ Count(i, "put") < Len(generatedCode[i].files)
       /\ log[i][FirstPos(i, {"put!"}) + 1] \in {"failed", "failed!"}
       /\ \A k \in KeysOf(i) : \E o \in STORAGE : o.key = k

\* invocation i is between a blob write and its completed update
Midway(i) == Count(i, "put") >= 1 /\ pc[i] \in {"put", "complete"}

\* C17: between a blob write and the completed update an invocation has
\* blobs in the store that no row's descriptor list references while its row
\* is processing; and as long as that invocation takes no step (it crashed)
\* no step of anything else changes its row or its blobs.
C17_CrashLeavesOrphans ==
  /\ [](\A i \in Inv :
          Midway(i) =>
            /\ KeysOf(i) # {}
            /\ \A k \in KeysOf(i) : \E o \in STORAGE : o.key = k
            /\ Row(i) # None /\ Row(i)[1].status = "processing" /\ Row(i)[1].files = None
            /\ \A id \in Inv :
                 (generations[id] # None /\ generations[id][1].files # None)
                 => \A d \in DOMAIN generations[id][1].files[1] :
                      generations[id][1].files[1][d].url[2] \notin KeysOf(i))
  /\ [][\A i \in Inv :
          (Midway(i) /\ pc'[i] = pc[i] /\ log'[i] = log[i])
          => /\ generations'[generationId(i)] = generations[generationId(i)]
             /\ {o \in STORAGE' : o.key \in KeysOf(i)} = {o \in STORAGE : o.key \in KeysOf(i)}]_vars

C17_Witness ==
  \E i, j \in Inv :
    /\ i # j
    /\ Midway(i) /\ pc[i] = "complete" /\ Count(i, "put") = MaxFiles
    /\ pc[j] = "done" /\ Returned(j, 200) /\ fileUrls[j] # << >>
    /\ Row(i)[1].status = "processing"

\* C18: the completed update and the usage increment are two steps: the
\* completed update leaves users unchanged and the increment leaves the row
\* unchanged; between them the row is completed with the increment not yet
\* run, and a quota read of the same account taken then returns the table's
\* current, not yet incremented, counters.
C18_CompleteThenIncrement ==
  /\ [](\A i \in Inv :
          pc[i] = "incr" =>
            /\ Row(i) # None /\ Row(i)[1].status = "completed"
            /\ Has(i, "complete") /\ ~Has(i, "incr"))
  /\ [][\A i \in Inv :
          /\ (pc[i] = "complete" /\ pc'[i] = "incr") => users' = users
          /\ (pc[i] = "incr" /\ pc'[i] = "done") => generations' = generations
          /\ \A j \in Inv :
               (/\ j # i /\ pc[i] = "incr" /\ pc'[i] = "incr"
                /\ pc[j] = "quota" /\ user'[j] # None
                /\ req[j].userId = req[i].userId)
               => user'[j][1] = users[req[i].userId]]_vars

C18_Witness ==
  \E i, j \in Inv :
    /\ i # j /\ req[i].userId = req[j].userId
    /\ pc[i] = "incr" /\ Row(i) # None /\ Row(i)[1].status = "completed"
    /\ users[req[i].userId] = user[i][1]
    /\ Has(j, "quota") /\ Len(log[j]) = 1 /\ PassedQuota(j)
    /\ user[j][1] = users[req[i].userId]

GenerationHandlers == {"generate", "history", "getById"}

\* C19 (as claimed): the body of a /generation/* route handler runs only
\* after the authentication middleware ran for that request and accepted its
\* bearer token.
C19_AuthBeforeHandler ==
  \A k \in DOMAIN appRan :
    appRan[k] \in GenerationHandlers
    => /\ \E l \in 1 .. (k - 1) : appRan[l] = "authMiddleware"
       /\ authMiddleware(appReq[1].authorization) # None
       /\ ctxUserId # None

\* the row with the requested id, if the table holds one
Requested == IF getReq[1].id \in Inv THEN generations[getReq[1].id] ELSE None

\* C20: GET /generation/:id answers with a record only if a row with that id
\* exists and its user_id is the caller's userId, and the record is that row;
\* when its SELECT resolved, a request for an id with no row and a request
\* for a row of another account get the same 404 "Generation not found"
\* response; no response carries a row of another account; the handler
\* writes nothing.
C20_OwnerScopedRead ==
  /\ [](getRes # None =>
          /\ getRes[1].status = 200
               => /\ Requested # None
                  /\ Requested[1].user_id = getReq[1].userId
                  /\ getRes[1].generation = Requested
          /\ (getRes[1].status # 500
                /\ (Requested = None \/ Requested[1].user_id # getReq[1].userId))
               => getRes[1] = NotFoundBody
          /\ getRes[1].generation # None
               => getRes[1].generation[1].user_id = getReq[1].userId)
  /\ [][generations' = generations /\ users' = users /\ STORAGE' = STORAGE]_vars

C20_Witness ==
  /\ getRes = Some(NotFoundBody)
  /\ Requested # None
  /\ Requested[1].user_id \in Accounts \ {getReq[1].userId}
  /\ getReq[1].userId \in Accounts

\* the request being dispatched is a POST /generation/generate whose body
\* lacks a prompt of 10 characters or more, or a type of the enum, or
\* carries a framework outside the enum or a projectId that is no uuid
InvalidGenerate ==
  /\ appReq # None
  /\ appReq[1].method = "POST" /\ appReq[1].path = <<"generation", "generate">>
  /\ LET body == appReq[1].body
     IN  \/ body.prompt = None
         \/ Len(body.prompt[1]) < 10
         \/ body.type = None
         \/ body.type[1] \notin {"component", "page", "api", "fullstack"}
         \/ (body.framework # None /\ body.framework[1] \notin {"react", "vue", "svelte", "nextjs"})
         \/ (body.projectId # None /\ body.projectId[1] # Uuid)

\* C21: a POST /generate whose body the schema rejects (prompt shorter than
\* 10 characters, type or framework outside its enum, projectId not a uuid)
\* is answered 400 by the validator and the handler body never runs: the
\* invocation stays idle and no step of the request changes a table, the
\* blob store or a counter.
C21_InvalidBodyRejected ==
  /\ [](InvalidGenerate =>
          /\ \A k \in DOMAIN appRan : appRan[k] # "generate"
          /\ appRes # None => appRes = Some(400)
          /\ pc[1] = "idle" /\ req[1] = NoReq /\ user[1] = None /\ log[1] = << >>
          /\ generations[generationId(1)] = None
          /\ STORAGE = {})
  /\ [][InvalidGenerate' => UNCHANGED <<users, generations, STORAGE, pc, req, user, log>>]_vars

C21_Witness ==
  /\ appRes = Some(400)
  /\ appReq[1].method = "POST" /\ appReq[1].path = <<"generation", "generate">>
  /\ appReq[1].body.prompt = Some("short")
  /\ generateSchemaNoMin(appReq[1].body)
  /\ appRan[Len(appRan)] = "zValidator"

\* C22 (as claimed): whatever the page and limit parameters, the limit GET
\* /history passes to its query is a number of at most 50, and the rows the
\* query returns all belong to the caller.
C22_HistoryLimitCapped ==
  histQuery # None =>
    /\ histQuery[1].limit # None
    /\ histQuery[1].limit[1] <= historyCap
    /\ \A k \in DOMAIN histRows : generations[histRows[k]][1].user_id = histReq[1].userId

\* the increments of the account a that have run
Incrs(a) == Cardinality({i \in Inv : req[i].userId = a /\ Has(i, "incr")})

\* C23: when the invocations of each account execute one at a time, an
\* account whose generations_used was at most its generations_limit at the
\* start keeps generations_used <= generations_limit in every state.
C23_SequentialWithinLimit ==
  /\ OneAtATime
  /\ \A a \in Accounts :
       users[a].generations_used - Incrs(a) <= users[a].generations_limit
         => users[a].generations_used <= users[a].generations_limit

\* an account that started one below its limit has had one invocation
\* increment it and a later one, started after the first answered, refused
C23_Witness ==
  \E i, j \in Inv :
    /\ i # j
    /\ req[i].userId = req[j].userId
    /\ Returned(i, 200) /\ Has(i, "incr")
    /\ user[i][1].generations_used = user[i][1].generations_limit - 1
    /\ Returned(j, 429)
    /\ user[j] # None /\ user[j][1].generations_used = user[j][1].generations_limit
    /\ users[req[i].userId].generations_used = users[req[i].userId].generations_limit

\* the row of invocation i has been set to completed at some point
WasCompleted(i) ==
  Row(i) # None /\ \E k \in DOMAIN Row(i)[1].writes : Row(i)[1].writes[k] = "completed"

\* C24: under any interleaving, every step that changes an account's
\* generations_used adds exactly 1 and is the first increment of an invocation
\* of that account whose row has been set to completed; so the growth of an
\* account's generations_used never exceeds the number of its requests whose
\* row was completed, and no invocation adds more than 1.
C24_UsedBoundedByCompleted ==
  /\ [](\A i \in Inv : Has(i, "incr") => WasCompleted(i))
  /\ [][\A a \in Accounts :
          users'[a] # users[a] =>
            /\ users'[a].generations_used = users[a].generations_used + 1
            /\ users'[a].generations_limit = users[a].generations_limit
            /\ \E i \in Inv :
                 /\ req[i].userId = a
                 /\ ~Has(i, "incr")
                 /\ log'[i] = Append(log[i], "incr")
                 /\ WasCompleted(i)
                 /\ \A j \in Inv \ {i} : log'[j] = log[j]]_vars

\* two invocations of one account have both incremented it, each after its
\* row was completed
C24_Witness ==
  \E i, j \in Inv :
    /\ i # j
    /\ req[i].userId = req[j].userId
    /\ Has(i, "incr") /\ Has(j, "incr")
    /\ WasCompleted(i) /\ WasCompleted(j)
    /\ user[i] = user[j]
    /\ users[req[i].userId].generations_used = user[i][1].generations_used + 2

\* C25 (as claimed): a row is completed only after the blob write of every
\* file of the provider's result has returned, and each descriptor stored in a
\* completed row names a key generations/<id>/<name> held by the blob store
\* with the content of that file.
C25_CompletedFilesStored ==
  \A i \in Inv :
    (Row(i) # None /\ Row(i)[1].status = "completed") =>
      LET files == generatedCode[i].files
          stored == Row(i)[1].files[1]
      IN  /\ Count(i, "put") = Len(files)
          /\ Len(stored) = Len(files)
          /\ \A k \in DOMAIN stored :
               /\ stored[k].name = files[k].name
               /\ stored[k].url = fileUrl(fileKey(generationId(i), files[k].name))
               /\ [key |-> fileKey(generationId(i), files[k].name),
                   content |-> files[k].content] \in STORAGE

\* app.onError(errorHandler): the answer to a request whose handler rejected
errorHandler == [status |-> 500]

\* what the caller of invocation i is answered: the handler's response, or the
\* error handler's when the handler rejected
Answer(i) == IF pc[i] = "threw" THEN Some(errorHandler) ELSE response[i]

\* C26 (as claimed): a 200 is returned only after the completed update and
\* the increment both succeeded, and carries the id and the descriptor list
\* stored in the request's row; whenever the answer is 500 the row is not left
\* completed.
C26_ResponseMatchesRow ==
  \A i \in Inv :
    /\ Returned(i, 200) =>
         /\ Has(i, "complete") /\ Has(i, "incr")
         /\ Row(i) # None
         /\ response[i][1].generationId = Row(i)[1].id
         /\ Some(response[i][1].files) = Row(i)[1].files
    /\ (Answer(i) # None /\ Answer(i)[1].status = 500) =>
         ~(Row(i) # None /\ Row(i)[1].status = "completed")

\* call c is of the given route and has been answered with the given status
Answered(c, route, status) ==
  call[c].route = route /\ callRes[c] # None /\ callRes[c][1].status = status

\* C27: a login call is answered with a token only with status 200 and only
\* when a non-deleted row carries the given email, the password matches its
\* hash and its email_verified is set, the token being signed for that row;
\* a call answered 401, 403 or 500 carries no token and has not written
\* last_login_at; last_login_at changes only in the step that answers a login
\* call with 200.
C27_TokenOnlyForVerifiedMatch ==
  /\ [](\A c \in Calls :
          (call[c].route = "login" /\ callRes[c] # None) =>
            LET r == callRes[c][1]
            IN  /\ r.status \in {200, 401, 403, 500}
                /\ (r.token # None) <=> (r.status = 200)
                /\ r.token # None =>
                     \E u \in authUsers :
                       /\ u.email = call[c].email
                       /\ u.deleted_at = None
                       /\ bcryptHash(call[c].password) = u.password_hash
                       /\ u.email_verified = 1
                       /\ r.token = Some(jwtSign(u))
                /\ r.status # 200 => \A u \in authUsers : u.last_login_at # Some(now(c)))
  /\ [][\A u \in authUsers, v \in authUsers' :
          (u.id = v.id /\ u.last_login_at # v.last_login_at) =>
            \E c \in Calls :
              /\ call[c].route = "login"
              /\ callRes[c] = None
              /\ callUser[c] # None /\ callUser[c][1].id = u.id
              /\ callRes'[c] # None /\ callRes'[c][1].status = 200]_vars

\* a login was answered with a token and stamped the row; another login, with
\* the wrong password, was answered 401
C27_Witness ==
  \E c, d \in Calls :
    /\ Answered(c, "login", 200)
    /\ callRes[c][1].token # None
    /\ \E u \in authUsers : u.email = call[c].email /\ u.last_login_at = Some(now(c))
    /\ Answered(d, "login", 401)
    /\ callUser[d] # None

\* C28 (as claimed): once a verify-email call has succeeded for a token, the
\* row it verified has email_verified 1 and no verification_token, every
\* verify-email call with the same token answered from then on gets 400 and
\* changes no row, and no step takes email_verified back to 0.
C28_TokenSingleUse ==
  /\ [](\A c \in Calls :
          Answered(c, "verify-email", 200) =>
            \A u \in authUsers :
              u.id = callUser[c][1].id => u.email_verified = 1 /\ u.verification_token = None)
  /\ [][\A c, d \in Calls :
          (/\ c # d
           /\ Answered(c, "verify-email", 200)
           /\ call[d].route = "verify-email"
           /\ call[d].token = call[c].token
           /\ callRes[d] = None /\ callRes'[d] # None)
          => /\ callRes'[d][1].status = 400
             /\ authUsers' = authUsers]_vars
  /\ [][\A u \in authUsers, v \in authUsers' :
          (u.id = v.id /\ u.email_verified = 1) => v.email_verified = 1]_vars

\* run e of handleMissionExecute has a request in flight
InFlight(e) == exec[e].pc \in {"fetch", "json"}

\* C29: handleMissionExecute changes nothing when the trimmed input is empty;
\* otherwise it sets isLoading and clears missionResult before its request,
\* isLoading is true exactly while a request is in flight and false after
\* every outcome, missionResult stays cleared while the request is in flight
\* and is set exactly once by the run, and at most one request is in flight.
C29_OneRequestAtATime ==
  /\ [](/\ isLoading <=> \E e \in Execs : InFlight(e)
        /\ \A e, d \in Execs : (InFlight(e) /\ InFlight(d)) => e = d
        /\ \A e \in Execs :
             /\ InFlight(e) => exec[e].sets = 0 /\ missionResult = None
             /\ exec[e].pc = "done" => exec[e].sets = 1
             /\ exec[e].pc \in {"idle", "returned"} => exec[e].sets = 0)
  /\ [][\A e \in Execs :
          /\ (exec[e].pc = "idle" /\ exec'[e].pc # "idle") =>
               IF trim(missionInput) = << >>
               THEN /\ exec'[e].pc = "returned"
                    /\ UNCHANGED <<missionInput, missionResult, isLoading>>
               ELSE /\ exec'[e].pc = "fetch"
                    /\ isLoading' /\ missionResult' = None
          /\ (InFlight(e) /\ ~InFlight(e)') =>
               /\ exec'[e].pc = "done"
               /\ ~isLoading'
               /\ missionResult' # None]_vars

\* a first run has settled with a failure result and a second one is in
\* flight, its non-ok response received, with the result cleared
C29_Witness ==
  \E e, d \in Execs :
    /\ exec[e].pc = "done" /\ exec[e].sets = 1
    /\ exec[d].pc = "json" /\ ~exec[d].response[1].ok
    /\ isLoading
    /\ missionResult = None
====
